---------------------------- MODULE Spec2Model ----------------------------
(***************************************************************************)
(* Model of obc_sqc/model/annotation_utils.py (class AnnotationUtils):     *)
(*   text_annotation, update_ann_text,                                     *)
(*   create_annotations_percentages_list and error_codes_hourly.           *)
(*                                                                         *)
(* Strings are sequences of one-character strings, so that concatenation,  *)
(* rstrip, the substring test of "in" and split are computed on            *)
(* characters as Python computes them.  Timestamps are integers counting   *)
(* sub-second ticks since an epoch midnight.                               *)
(***************************************************************************)
EXTENDS Integers, Sequences, FiniteSets, TLC

VARIABLES
    pc,                 \* position of the modelled call
    row,                \* the DataFrame row handled by text_annotation / update_ann_text
    last_call,          \* the latest update_ann_text call: its arguments, and whether
                        \* the call before it had the same arguments
    df,                 \* create_annotations_percentages_list: argument df
    selected_columns,   \* create_annotations_percentages_list: argument selected_columns
    start_time,         \* create_annotations_percentages_list: argument start_time
    result,             \* outcome of create_annotations_percentages_list
    fnl_raw_process,    \* error_codes_hourly: argument fnl_raw_process
    minute_averaging,   \* error_codes_hourly: argument minute_averaging
    hourly              \* outcome of error_codes_hourly

vars == << pc, row, last_call, df, selected_columns, start_time, result,
           fnl_raw_process, minute_averaging, hourly >>

-----------------------------------------------------------------------------
(* Bounds of the model *)

MaxFlag == 2            \* fault columns take the values 0..MaxFlag
MaxGroups == 2          \* groups of rows in a table
ManyRows == 2000        \* rows of a large group

-----------------------------------------------------------------------------
(* Text codes, as character sequences *)

OBC == << "O", "B", "C" >>
SPIKE_INST == << "S", "P", "I", "K", "E", "_", "I", "N", "S", "T" >>
UNIDENTIFIED_SPIKE ==
    << "U", "N", "I", "D", "E", "N", "T", "I", "F", "I", "E", "D", "_",
       "S", "P", "I", "K", "E" >>
NO_DATA == << "N", "O", "_", "D", "A", "T", "A" >>
SHORT_CONST == << "S", "H", "O", "R", "T", "_", "C", "O", "N", "S", "T" >>
LONG_CONST == << "L", "O", "N", "G", "_", "C", "O", "N", "S", "T" >>
FROZEN_SENSOR ==
    << "F", "R", "O", "Z", "E", "N", "_", "S", "E", "N", "S", "O", "R" >>

delim == << "," >>

\* The dict `conditions` of text_annotation, in insertion order.
conditions ==
    << << "obc", OBC >>,
       << "invalid_datum", SPIKE_INST >>,
       << "unidentified_spike", UNIDENTIFIED_SPIKE >>,
       << "no_datum", NO_DATA >>,
       << "constant", SHORT_CONST >>,
       << "constant_long", LONG_CONST >>,
       << "constant_frozen", FROZEN_SENSOR >> >>

\* f"ann_{key}"
AnnColumn(key) ==
    CASE key = "obc" -> "ann_obc"
      [] key = "invalid_datum" -> "ann_invalid_datum"
      [] key = "unidentified_spike" -> "ann_unidentified_spike"
      [] key = "no_datum" -> "ann_no_datum"
      [] key = "constant" -> "ann_constant"
      [] key = "constant_long" -> "ann_constant_long"
      [] key = "constant_frozen" -> "ann_constant_frozen"

FlagValues == 0..MaxFlag

-----------------------------------------------------------------------------
(* String helpers: Python's str.rstrip, "in" and str.split *)

RECURSIVE RStrip(_, _)
\* s.rstrip(chars): drop every trailing character that is in chars
RStrip(s, chars) ==
    IF Len(s) > 0 /\ (\E i \in 1..Len(chars) : chars[i] = s[Len(s)])
    THEN RStrip(SubSeq(s, 1, Len(s) - 1), chars)
    ELSE s

\* sub in s, for strings
IsSubstring(sub, s) ==
    \E i \in 0..(Len(s) - Len(sub)) : SubSeq(s, i + 1, i + Len(sub)) = sub

RECURSIVE Split(_, _)
\* s.split(sep) for a one-character sep: "".split(",") is [""]
Split(s, sep) ==
    IF \E i \in 1..Len(s) : s[i] = sep
    THEN LET i == CHOOSE j \in 1..Len(s) :
                    s[j] = sep /\ \A k \in 1..(j - 1) : s[k] # sep
         IN  << SubSeq(s, 1, i - 1) >> \o Split(SubSeq(s, i + 1, Len(s)), sep)
    ELSE << s >>

-----------------------------------------------------------------------------
(* text_annotation *)

\* masks_df: fnl_df[f"ann_{key}"] > 0
Mask(r, key) == r[AnnColumn(key)] > 0

\* texts_df: f"{value}{delim}"
Text(value) == value \o delim

\* annotation_df = masks_df * texts_df: True * s is s, False * s is ""
AnnotationCell(r, i) ==
    IF Mask(r, conditions[i][1]) THEN Text(conditions[i][2]) ELSE << >>

RECURSIVE SumCells(_, _)
\* annotation_df.sum(axis=1): the cells of the row concatenated in column order
SumCells(r, n) ==
    IF n = 0 THEN << >> ELSE SumCells(r, n - 1) \o AnnotationCell(r, n)

\* text_annotation with the trailing delimiter left in place
text_annotation_keeps_delim(r) ==
    [r EXCEPT !.annotation = SumCells(r, Len(conditions))]

\* the value text_annotation stores in fnl_df["annotation"] for row r
text_annotation(r) ==
    [r EXCEPT !.annotation = RStrip(SumCells(r, Len(conditions)), delim)]

-----------------------------------------------------------------------------
(* update_ann_text *)

\* update_ann_text without the test that new_text is not yet in the annotation
update_ann_text_always_appends(r, new_text, ann_column) ==
    IF r[ann_column] > 0
    THEN IF Len(r.annotation) > 0
         THEN [r EXCEPT !.annotation = r.annotation \o << "," >> \o new_text]
         ELSE [r EXCEPT !.annotation = new_text]
    ELSE r

update_ann_text(r, new_text, ann_column) ==
    IF r[ann_column] > 0 /\ ~IsSubstring(new_text, r.annotation)
    THEN IF Len(r.annotation) > 0
         THEN [r EXCEPT !.annotation = r.annotation \o << "," >> \o new_text]
         ELSE [r EXCEPT !.annotation = new_text]
    ELSE r

-----------------------------------------------------------------------------
(* Timestamps: ticks since an epoch midnight *)

TicksPerSecond == 2     \* sub-second resolution of the modelled timestamps

TicksPerMinute == 60 * TicksPerSecond
TicksPerHour == 60 * TicksPerMinute
TicksPerDay == 24 * TicksPerHour

\* ts.replace(hour=.., minute=.., second=..): the date and the sub-second part
\* of ts are kept
ReplaceHMS(ts, hour, minute, second) ==
    (ts \div TicksPerDay) * TicksPerDay
        + hour * TicksPerHour + minute * TicksPerMinute
        + second * TicksPerSecond
        + (ts % TicksPerSecond)

\* ts.replace(minute=0, second=0, microsecond=0)
ReplaceMinuteSecondMicro(ts) == (ts \div TicksPerHour) * TicksPerHour

-----------------------------------------------------------------------------
(* create_annotations_percentages_list *)

(* A DataFrame is [columns, rows]: columns is the sequence of its column    *)
(* names and rows a set of groups [ts, n, vals], a group standing for n     *)
(* rows of index ts holding vals[c] in column c.                            *)

\* len(range(24)): the buckets of a call
Hours == 24

\* start_hours[hour]: start_time + pd.DateOffset(hours=hour)
start_hours(start, hour) == start + hour * TicksPerHour

\* end_hours[hour]: start_time + pd.DateOffset(hours=hour + 1)
end_hours(start, hour) == start + (hour + 1) * TicksPerHour

\* rounded_hours[hour]
rounded_hours(start, hour) ==
    ReplaceMinuteSecondMicro(start_hours(start, hour) + 30 * TicksPerMinute)

RECURSIVE Shape0(_)
\* frame.shape[0]: the number of rows of a set of groups
Shape0(groups) ==
    IF groups = { } THEN 0
    ELSE LET g == CHOOSE x \in groups : TRUE
         IN  g.n + Shape0(groups \ { g })

\* df[(df.index >= start) & (df.index <= end)]: both ends included
RowsInClosedRange(d, start, end) ==
    { g \in d.rows : g.ts >= start /\ g.ts <= end }

\* df[(df.index >= start) & (df.index < end)]
RowsInRange(d, start, end) ==
    { g \in d.rows : g.ts >= start /\ g.ts < end }

\* count_rows_in_range with <= applied to the end of the range
count_rows_in_range_closed(d, start, end) ==
    Shape0(RowsInClosedRange(d, start, end))

count_rows_in_range(d, start, end) == Shape0(RowsInRange(d, start, end))

ColumnSet(d) == { d.columns[i] : i \in 1..Len(d.columns) }

\* count_positive_rows_in_range counting over the whole of df
count_positive_rows_unfiltered(d, start, end) ==
    [ c \in ColumnSet(d) |-> Shape0({ g \in d.rows : g.vals[c] > 0 }) ]

\* (filtered_df > 0).sum(): per column, the rows of the range that are positive
count_positive_rows_in_range(d, start, end) ==
    [ c \in ColumnSet(d) |->
        Shape0({ g \in RowsInRange(d, start, end) : g.vals[c] > 0 }) ]

(* A percentage is the float (a / b) * 100, kept as the exact quotient      *)
(* num / den, or NaN (0 / 0) or inf (a / 0, a > 0): pandas divides by zero  *)
(* without raising.                                                         *)
Percentage(a, b) ==
    IF b = 0
    THEN IF a = 0 THEN [ kind |-> "nan", num |-> 0, den |-> 1 ]
                  ELSE [ kind |-> "inf", num |-> 1, den |-> 1 ]
    ELSE [ kind |-> "num", num |-> a * 100, den |-> b ]

\* percentages[hour]: (a / b) * 100, a Series over the columns of df
percentages(d, start, hour) ==
    LET a == count_positive_rows_in_range(
                 d, start_hours(start, hour), end_hours(start, hour))
        b == count_rows_in_range(
                 d, start_hours(start, hour), end_hours(start, hour))
    IN  [ c \in ColumnSet(d) |-> Percentage(a[c], b) ]

\* percentage >= 0: a comparison with NaN is false
GreaterOrEqualZero(p) == p.kind # "nan"

\* percentage > 0: a comparison with NaN is false
GreaterThanZero(p) == p.kind = "inf" \/ (p.kind = "num" /\ p.num > 0)

\* item.any() > 0: Series.any() skips NaN and is False for an empty Series
ItemAny(item) ==
    \E c \in DOMAIN item : item[c].kind = "inf" \/ (item[c].kind = "num" /\ item[c].num # 0)

(* f"{percentage:.1f}": the tenths shown.  The float is rounded to the      *)
(* nearest tenth; when the exact quotient lies half-way between two tenths  *)
(* the float's rounding error decides, and either neighbour may be shown    *)
(* (up tells which).                                                        *)
Format1f(p, up) ==
    IF p.kind = "num"
    THEN LET scaled == p.num * 10
             low == scaled \div p.den
             twice == 2 * (scaled % p.den)
         IN  [ kind |-> "num",
               tenths |-> IF twice > p.den \/ (twice = p.den /\ up)
                          THEN low + 1 ELSE low ]
    ELSE [ kind |-> p.kind, tenths |-> 0 ]

\* the cells of percentages[hour] whose exact quotient is half-way between tenths
IsTie(p) == p.kind = "num" /\ 2 * ((p.num * 10) % p.den) = p.den

\* selected_columns: a dict, as the sequence of its <<key, value>> items
HasKey(dict, key) == \E i \in 1..Len(dict) : dict[i][1] = key

Lookup(dict, key) == dict[CHOOSE i \in 1..Len(dict) : dict[i][1] = key][2]

\* the columns of item, in the order of item.items(), that pass "if percentage > 0"
ReportedColumns(d, item) ==
    LET Reported(c) == GreaterThanZero(item[c])
    IN  SelectSeq(d.columns, Reported)

\* the reported columns taken in the order of selected_columns instead
ErrorCodesItemInVocabularyOrder(d, dict, item, up) ==
    LET Reported(e) == e[1] \in DOMAIN item /\ GreaterThanZero(item[e[1]])
        cols == SelectSeq(dict, Reported)
    IN  IF ~ItemAny(item)
        THEN [ raised |-> "", entry |-> << >> ]
        ELSE [ raised |-> "",
               entry |-> [ i \in 1..Len(cols) |->
                            [ code |-> cols[i][2],
                              pct |-> Format1f(item[cols[i][1]], up[cols[i][1]]) ] ] ]

\* one element of error_codes_list: the entry of one hour, or the KeyError of
\* selected_columns[str(column)]
ErrorCodesItem(d, dict, item, up) ==
    LET cols == ReportedColumns(d, item)
    IN  IF ~ItemAny(item)
        THEN [ raised |-> "", entry |-> << >> ]
        ELSE IF \E i \in 1..Len(cols) : ~HasKey(dict, cols[i])
        THEN [ raised |-> "KeyError", entry |-> << >> ]
        ELSE [ raised |-> "",
               entry |-> [ i \in 1..Len(cols) |->
                            [ code |-> Lookup(dict, cols[i]),
                              pct |-> Format1f(item[cols[i]], up[cols[i]]) ] ] ]

\* total_rows: list(map(count_rows_in_range, start_hours, end_hours))
total_rows(d, start) ==
    [ i \in 1..Hours |->
        count_rows_in_range(d, start_hours(start, i - 1), end_hours(start, i - 1)) ]

\* the call: the Series error_codes indexed by rounded_hours, or the exception
\* of the first hour whose item raises (raised_at, 0 when none does).
\* up[i][c] settles the rounding of a half-way percentage of hour i, column c.
create_annotations_percentages_list(d, dict, start, up) ==
    LET items == [ i \in 1..Hours |->
                     ErrorCodesItem(d, dict, percentages(d, start, i - 1), up[i]) ]
        failing == { i \in 1..Hours : items[i].raised # "" }
    IN  IF failing # { }
        THEN [ raised |-> "KeyError",
               raised_at |-> CHOOSE i \in failing : \A j \in failing : i <= j,
               total_rows |-> total_rows(d, start),
               error_codes |-> << >> ]
        ELSE [ raised |-> "", raised_at |-> 0,
               total_rows |-> total_rows(d, start),
               error_codes |->
                   [ i \in 1..Hours |->
                       [ index |-> rounded_hours(start, i - 1),
                         entry |-> items[i].entry ] ] ]

\* the ways the half-way percentages of a call can be rounded: a choice for
\* each half-way cell, FALSE elsewhere
Roundings(d, start) ==
    LET ties == { cell \in (1..Hours) \X ColumnSet(d) :
                    IsTie(percentages(d, start, cell[1] - 1)[cell[2]]) }
    IN  { [ i \in 1..Hours |-> [ c \in ColumnSet(d) |-> << i, c >> \in S ] ] :
            S \in SUBSET ties }

-----------------------------------------------------------------------------
(* Inputs of the per-row calls *)

CONST == << "C", "O", "N", "S", "T" >>

\* labels handed to update_ann_text as new_text
Labels == { NO_DATA, CONST }

\* flag columns handed to update_ann_text as ann_column
PatchColumns == { "ann_no_datum", "ann_constant" }

\* the rows of fnl_df before text_annotation has added the annotation column
Rows ==
    [ ann_obc : FlagValues, ann_invalid_datum : FlagValues,
      ann_unidentified_spike : FlagValues, ann_no_datum : FlagValues,
      ann_constant : FlagValues, ann_constant_long : FlagValues,
      ann_constant_frozen : FlagValues, annotation : { << >> } ]

NoRow ==
    [ ann_obc |-> 0, ann_invalid_datum |-> 0, ann_unidentified_spike |-> 0,
      ann_no_datum |-> 0, ann_constant |-> 0, ann_constant_long |-> 0,
      ann_constant_frozen |-> 0, annotation |-> << >> ]

NoCall == [ new_text |-> << >>, ann_column |-> "", repeated |-> FALSE ]

NoTable == [ columns |-> << >>, rows |-> { } ]
NoResult ==
    [ raised |-> "", raised_at |-> 0, total_rows |-> << >>, error_codes |-> << >> ]
NoHourly ==
    [ raised |-> "", start_time |-> 0, end_time |-> 0, annotations |-> << >> ]

-----------------------------------------------------------------------------
(* Specification of the per-row calls: text_annotation, then update_ann_text *)

AggIdle ==
    /\ df = NoTable
    /\ selected_columns = << >>
    /\ start_time = 0
    /\ result = NoResult

HourlyIdle ==
    /\ fnl_raw_process = NoTable
    /\ minute_averaging = NoTable
    /\ hourly = NoHourly

InitAnn ==
    /\ pc = "start"
    /\ row \in Rows
    /\ last_call = NoCall
    /\ AggIdle
    /\ HourlyIdle

TextAnnotation ==
    /\ pc = "start"
    /\ row' = text_annotation(row)
    /\ pc' = "annotated"
    /\ UNCHANGED << last_call, df, selected_columns, start_time, result,
                    fnl_raw_process, minute_averaging, hourly >>

UpdateAnnText ==
    /\ pc \in { "annotated", "patched" }
    /\ \E new_text \in Labels, ann_column \in PatchColumns :
          /\ row' = update_ann_text(row, new_text, ann_column)
          /\ last_call' =
                [ new_text |-> new_text, ann_column |-> ann_column,
                  repeated |-> /\ last_call.new_text = new_text
                               /\ last_call.ann_column = ann_column ]
    /\ pc' = "patched"
    /\ UNCHANGED << df, selected_columns, start_time, result,
                    fnl_raw_process, minute_averaging, hourly >>

NextAnn == TextAnnotation \/ UpdateAnnText

SpecAnn == InitAnn /\ [][NextAnn]_vars

-----------------------------------------------------------------------------
(* Inputs of create_annotations_percentages_list *)

ANOMALOUS_INCREASE ==
    << "A", "N", "O", "M", "A", "L", "O", "U", "S", "_",
       "I", "N", "C", "R", "E", "A", "S", "E" >>
UNIDENTIFIED_ANOMALOUS_CHANGE ==
    << "U", "N", "I", "D", "E", "N", "T", "I", "F", "I", "E", "D", "_",
       "A", "N", "O", "M", "A", "L", "O", "U", "S", "_",
       "C", "H", "A", "N", "G", "E" >>

\* selected_columns of error_codes_hourly for the raw table
raw_selected_columns ==
    << << "ann_obc", OBC >>,
       << "ann_invalid_datum", SPIKE_INST >>,
       << "ann_unidentified_spike", UNIDENTIFIED_SPIKE >>,
       << "ann_no_datum", NO_DATA >>,
       << "ann_constant", SHORT_CONST >>,
       << "ann_constant_long", LONG_CONST >>,
       << "ann_constant_frozen", FROZEN_SENSOR >> >>

\* selected_columns of error_codes_hourly for the minute-averaged table
minute_selected_columns ==
    << << "ann_invalid_datum", ANOMALOUS_INCREASE >>,
       << "ann_unidentified_change", UNIDENTIFIED_ANOMALOUS_CHANGE >> >>

Keys(dict) == [ i \in 1..Len(dict) |-> dict[i][1] ]

\* the column layouts of the tables handed in: the minute columns in the order
\* of the vocabulary, in the opposite order, and with one of them absent
ColumnLayouts ==
    { << "ann_invalid_datum", "ann_unidentified_change" >>,
      << "ann_unidentified_change", "ann_invalid_datum" >>,
      << "ann_invalid_datum" >> }

StartTimes == { TicksPerDay, TicksPerDay + 1 }

\* index values relative to start_time: the first tick of the day, the two
\* sides of the first hour boundary, the last tick of the day, the tick after it
Offsets ==
    { 0, TicksPerHour - 1, TicksPerHour,
      Hours * TicksPerHour - 1, Hours * TicksPerHour }

GroupSizes == { 1, ManyRows }

\* a clean value and a positive one
CellValues == { 0, MaxFlag }

Seq2Set(q) == { q[i] : i \in 1..Len(q) }

GroupsOf(columns, times) ==
    [ ts : times, n : GroupSizes, vals : [ Seq2Set(columns) -> CellValues ] ]

RECURSIVE SubsetsUpTo(_, _)
\* the subsets of G of at most k elements
SubsetsUpTo(G, k) ==
    IF k = 0 THEN { { } }
    ELSE LET P == SubsetsUpTo(G, k - 1)
         IN  P \cup { S \cup { g } : S \in P, g \in G }

Tables(columns, times) ==
    [ columns : { columns }, rows : SubsetsUpTo(GroupsOf(columns, times), MaxGroups) ]

-----------------------------------------------------------------------------
(* Specification of one call of create_annotations_percentages_list *)

AnnIdle ==
    /\ row = NoRow
    /\ last_call = NoCall

InitAgg ==
    /\ pc = "call"
    /\ selected_columns \in { raw_selected_columns, minute_selected_columns }
    /\ start_time \in StartTimes
    /\ \E columns \in ColumnLayouts :
          df \in Tables(columns, { start_time + o : o \in Offsets })
    /\ result = NoResult
    /\ AnnIdle
    /\ HourlyIdle

CreateAnnotationsPercentagesList ==
    /\ pc = "call"
    /\ \E up \in Roundings(df, start_time) :
          result' = create_annotations_percentages_list(
                        df, selected_columns, start_time, up)
    /\ pc' = "returned"
    /\ UNCHANGED << row, last_call, df, selected_columns, start_time,
                    fnl_raw_process, minute_averaging, hourly >>

NextAgg == CreateAnnotationsPercentagesList

SpecAgg == InitAgg /\ [][NextAgg]_vars

-----------------------------------------------------------------------------
(* error_codes_hourly *)

\* fnl_raw_process.index.max(skipna=False), for a table with rows
IndexMax(d) ==
    LET times == { g.ts : g \in d.rows }
    IN  CHOOSE t \in times : \A u \in times : u <= t

\* end_time: index.max().replace(hour=23, minute=59, second=59)
EndTime(d) == ReplaceHMS(IndexMax(d), 23, 59, 59)

\* start_time: end_time.replace(hour=0, minute=0, second=0)
StartTime(d) == ReplaceHMS(EndTime(d), 0, 0, 0)

\* frame.loc[start:end, columns]: the rows from start to end, both included,
\* and the listed columns in the listed order; KeyError when one is absent
Loc(d, start, end, columns) ==
    IF \E k \in 1..Len(columns) : columns[k] \notin ColumnSet(d)
    THEN [ raised |-> "KeyError", frame |-> NoTable ]
    ELSE [ raised |-> "",
           frame |->
               [ columns |-> columns,
                 rows |-> { [ ts |-> g.ts, n |-> g.n,
                              vals |-> [ c \in Seq2Set(columns) |-> g.vals[c] ] ] :
                            g \in RowsInClosedRange(d, start, end) } ] ]

Failed(start, end) ==
    [ raised |-> "KeyError", start_time |-> start, end_time |-> end,
      annotations |-> << >> ]

\* the call: the Series annotations, or the exception raised on the way
error_codes_hourly(raw, minute, up_raw, up_minute) ==
    LET end == EndTime(raw)
        start == StartTime(raw)
        filtered_raw == Loc(raw, start, end, Keys(raw_selected_columns))
        filtered_minute == Loc(minute, start, end, Keys(minute_selected_columns))
        annotations_based_on_raw ==
            create_annotations_percentages_list(
                filtered_raw.frame, raw_selected_columns, start, up_raw)
        annotations_based_on_minutes ==
            create_annotations_percentages_list(
                filtered_minute.frame, minute_selected_columns, start, up_minute)
    IN  IF filtered_raw.raised # "" \/ annotations_based_on_raw.raised # ""
        THEN Failed(start, end)
        ELSE IF filtered_minute.raised # "" \/ annotations_based_on_minutes.raised # ""
        THEN Failed(start, end)
        ELSE [ raised |-> "", start_time |-> start, end_time |-> end,
               annotations |->
                   [ i \in 1..Hours |->
                       [ index |-> annotations_based_on_raw.error_codes[i].index,
                         pair |-> << annotations_based_on_raw.error_codes[i].entry,
                                     annotations_based_on_minutes.error_codes[i].entry >> ] ] ]

-----------------------------------------------------------------------------
(* Inputs and specification of one call of error_codes_hourly *)

\* index values of the tables: the last tick of a day, the midnight after it,
\* the tick after midnight, and a whole and a fractional second in hour 10
HourlyTimes ==
    { TicksPerDay - 1, TicksPerDay, TicksPerDay + 1,
      TicksPerDay + 10 * TicksPerHour, TicksPerDay + 10 * TicksPerHour + 1 }

\* rows of the raw table: clean, or flagged in ann_obc
RawVals ==
    { [ c \in Seq2Set(Keys(raw_selected_columns)) |->
          IF c = "ann_obc" THEN v ELSE 0 ] : v \in CellValues }

RawTables ==
    [ columns : { Keys(raw_selected_columns) },
      rows : SubsetsUpTo([ ts : HourlyTimes, n : { 1 }, vals : RawVals ], MaxGroups)
                \ { { } } ]

MinuteTables ==
    UNION { [ columns : { columns },
              rows : SubsetsUpTo(GroupsOf(columns, HourlyTimes), 1) ] :
            columns \in ColumnLayouts }

InitHourly ==
    /\ pc = "call"
    /\ fnl_raw_process \in RawTables
    /\ minute_averaging \in MinuteTables
    /\ hourly = NoHourly
    /\ AnnIdle
    /\ AggIdle

ErrorCodesHourly ==
    /\ pc = "call"
    /\ \E up_raw \in Roundings(
              Loc(fnl_raw_process, StartTime(fnl_raw_process),
                  EndTime(fnl_raw_process), Keys(raw_selected_columns)).frame,
              StartTime(fnl_raw_process)),
          up_minute \in Roundings(
              Loc(minute_averaging, StartTime(fnl_raw_process),
                  EndTime(fnl_raw_process), Keys(minute_selected_columns)).frame,
              StartTime(fnl_raw_process)) :
          hourly' = error_codes_hourly(
                        fnl_raw_process, minute_averaging, up_raw, up_minute)
    /\ pc' = "returned"
    /\ UNCHANGED << row, last_call, df, selected_columns, start_time, result,
                    fnl_raw_process, minute_averaging >>

NextHourly == ErrorCodesHourly

SpecHourly == InitHourly /\ [][NextHourly]_vars

-----------------------------------------------------------------------------
(* Claims about text_annotation and update_ann_text *)

\* C2: text_annotation never emits the "no data" code: the annotation it
\* produces does not contain NO_DATA, whatever the value of ann_no_datum.
C2_EncoderNeverEmitsNoData ==
    pc = "annotated" => ~IsSubstring(NO_DATA, row.annotation)

\* the text codes of the columns of `conditions` that are positive in r, in
\* the declaration order of `conditions`
ActiveCodes(r) ==
    LET Positive(entry) == r[AnnColumn(entry[1])] > 0
        active == SelectSeq(conditions, Positive)
    IN  [ i \in 1..Len(active) |-> active[i][2] ]

AnyLabels == Labels \cup { OBC, << >>, << "A", ",", "B" >> }

\* C8: update_ann_text is idempotent: on every row it can be handed, a second
\* call with the same label and flag column returns the row the first returned.
C8_UpdateAnnTextIdempotent ==
    pc \in { "annotated", "patched" } =>
        \A new_text \in AnyLabels, ann_column \in PatchColumns :
            update_ann_text(update_ann_text(row, new_text, ann_column),
                            new_text, ann_column)
                = update_ann_text(row, new_text, ann_column)

\* C8 witness: the same call made twice in a row on a row whose flag is
\* positive and whose annotation from text_annotation lacked the label: the
\* label was appended once
C8_Witness ==
    /\ pc = "patched"
    /\ last_call.repeated
    /\ row[last_call.ann_column] > 0
    /\ ~IsSubstring(last_call.new_text, text_annotation(row).annotation)
    /\ row.annotation = text_annotation(row).annotation \o << "," >>
                            \o last_call.new_text

-----------------------------------------------------------------------------
(* Claims about create_annotations_percentages_list *)

\* the rows of df whose index lies in the window of bucket i,
\* [start_time + (i-1) h, start_time + i h)
BucketRows(i) ==
    { g \in df.rows : /\ g.ts >= start_time + (i - 1) * TicksPerHour
                      /\ g.ts < start_time + i * TicksPerHour }

\* total_i and positive_i[c] of the claims
BucketTotal(i) == Shape0(BucketRows(i))
BucketPositive(i, c) == Shape0({ g \in BucketRows(i) : g.vals[c] > 0 })

\* the codes of a report entry, in the order reported
Codes(entry) == [ k \in 1..Len(entry) |-> entry[k].code ]

\* C1: a bucket whose window holds no row does not make the call raise, and
\* its report entry is the empty list.
C1_EmptyBucketReportsNothing ==
    pc = "returned" =>
        \A i \in 1..Hours :
            BucketTotal(i) = 0 =>
                /\ result.raised_at # i
                /\ result.raised = "" => result.error_codes[i].entry = << >>

\* C1 witness: a report returned for a table with rows, one bucket reporting
\* a code and another holding no row
C1_Witness ==
    /\ pc = "returned"
    /\ result.raised = ""
    /\ \E i \in 1..Hours : BucketTotal(i) = 0
    /\ \E j \in 1..Hours : result.error_codes[j].entry # << >>

\* C4: when a column of selected_columns is absent from the table the call
\* fails and produces no report.
C4_MissingColumnFails ==
    (pc = "returned"
        /\ \E k \in 1..Len(selected_columns) :
              selected_columns[k][1] \notin ColumnSet(df))
    => result.raised # ""

RECURSIVE SumSeq(_)
SumSeq(q) == IF q = << >> THEN 0 ELSE Head(q) + SumSeq(Tail(q))

InDay(ts) == ts >= start_time /\ ts < start_time + Hours * TicksPerHour

\* C5: the 24 windows partition [start_time, start_time + 24h): every row of
\* that span is counted in exactly one bucket, so the totals of the buckets
\* add up to the rows of the span, and to the row count of the table when
\* all its rows lie in the span.
C5_WindowsPartitionTheDay ==
    pc = "returned" =>
        /\ \A g \in df.rows :
              InDay(g.ts) =>
                  Cardinality({ i \in 1..Hours :
                      /\ g.ts >= start_hours(start_time, i - 1)
                      /\ g.ts < end_hours(start_time, i - 1) }) = 1
        /\ SumSeq(result.total_rows)
              = Shape0({ g \in df.rows : InDay(g.ts) })
        /\ (\A g \in df.rows : InDay(g.ts)) =>
              SumSeq(result.total_rows) = Shape0(df.rows)

\* C5 witness: a table of two groups inside the day, on the two sides of the
\* first hour boundary
C5_Witness ==
    /\ pc = "returned"
    /\ \A g \in df.rows : InDay(g.ts)
    /\ \E g \in df.rows : g.ts = start_time + TicksPerHour - 1
    /\ \E g \in df.rows : g.ts = start_time + TicksPerHour
    /\ result.total_rows[1] > 0 /\ result.total_rows[2] > 0

\* C6: every percentage reported, as rendered to one decimal place, is
\* greater than 0 and at most 100.
C6_RenderedPercentagePositive ==
    (pc = "returned" /\ result.raised = "") =>
        \A i \in 1..Hours :
            \A k \in 1..Len(result.error_codes[i].entry) :
                LET pct == result.error_codes[i].entry[k].pct
                IN  pct.kind = "num" /\ 0 < pct.tenths /\ pct.tenths <= 1000

\* the column of df an entry's code stands for
ColumnOfCode(code) ==
    CHOOSE c \in ColumnSet(df) :
        HasKey(selected_columns, c) /\ Lookup(selected_columns, c) = code

\* C6 as amended: every percentage reported is, before rendering, greater
\* than 0 and at most 100; as rendered to one decimal place it is at least
\* 0.0 and at most 100.0.
C6_ReportedPercentageInRange ==
    (pc = "returned" /\ result.raised = "") =>
        \A i \in 1..Hours :
            \A k \in 1..Len(result.error_codes[i].entry) :
                LET e == result.error_codes[i].entry[k]
                    c == ColumnOfCode(e.code)
                IN  /\ e.pct.kind = "num"
                    /\ 0 <= e.pct.tenths /\ e.pct.tenths <= 1000
                    /\ 0 < BucketPositive(i, c)
                    /\ BucketPositive(i, c) <= BucketTotal(i)

\* C6 witness: a code reported with a percentage rendered as 0.0
C6_Witness ==
    /\ pc = "returned"
    /\ result.raised = ""
    /\ \E i \in 1..Hours :
          \E k \in 1..Len(result.error_codes[i].entry) :
              result.error_codes[i].entry[k].pct.tenths = 0

\* C9: the entry of every bucket lists the vocabulary columns whose
\* percentage is positive, each once, in the order of selected_columns,
\* whatever the order of the columns of the table.
C9_EntryInVocabularyOrder ==
    (pc = "returned" /\ result.raised = "") =>
        \A i \in 1..Hours :
            LET Reported(e) ==
                    e[1] \in ColumnSet(df) /\ BucketPositive(i, e[1]) > 0
                expected == SelectSeq(selected_columns, Reported)
            IN  Codes(result.error_codes[i].entry)
                    = [ k \in 1..Len(expected) |-> expected[k][2] ]

\* C9 as amended: when the call returns, the entry of every bucket lists the
\* columns of the table whose percentage is positive, each once, under the
\* code selected_columns gives it, in the order of the columns of the table;
\* that is the order of selected_columns when the table's columns are
\* list(selected_columns.keys()); the entry is empty when no percentage is
\* positive.
C9_EntryInTableOrder ==
    (pc = "returned" /\ result.raised = "") =>
        \A i \in 1..Hours :
            LET Reported(c) == BucketPositive(i, c) > 0
                expected == SelectSeq(df.columns, Reported)
                InVocabulary(e) ==
                    e[1] \in ColumnSet(df) /\ BucketPositive(i, e[1]) > 0
                ordered == SelectSeq(selected_columns, InVocabulary)
                codes == Codes(result.error_codes[i].entry)
            IN  /\ Len(codes) = Len(expected)
                /\ \A k \in 1..Len(expected) :
                      /\ HasKey(selected_columns, expected[k])
                      /\ codes[k] = Lookup(selected_columns, expected[k])
                /\ df.columns = Keys(selected_columns) =>
                      codes = [ k \in 1..Len(ordered) |-> ordered[k][2] ]

\* C9 witness: a table whose columns are in the opposite order of
\* selected_columns, two of them positive in the same bucket
C9_Witness ==
    /\ pc = "returned"
    /\ result.raised = ""
    /\ df.columns = << "ann_unidentified_change", "ann_invalid_datum" >>
    /\ selected_columns = minute_selected_columns
    /\ \E i \in 1..Hours :
          Codes(result.error_codes[i].entry)
              = << UNIDENTIFIED_ANOMALOUS_CHANGE, ANOMALOUS_INCREASE >>

-----------------------------------------------------------------------------
(* Claims about error_codes_hourly *)

\* C3: the start_time anchor of both aggregator runs is midnight, with no
\* sub-second part, of the day of the raw table's maximum timestamp, and
\* end_time is 23:59:59 of that day.
C3_AnchorsAreMidnightAndLastSecond ==
    (pc = "returned" /\ hourly.raised = "") =>
        LET day == IndexMax(fnl_raw_process) \div TicksPerDay
        IN  /\ hourly.start_time = day * TicksPerDay
            /\ hourly.end_time
                  = day * TicksPerDay + ((23 * 60 + 59) * 60 + 59) * TicksPerSecond

=============================================================================
